---- MODULE Spec2Model ----
(***************************************************************************)
(* Model of scripts/fetch-linkedin-jobs.ts: the rate-limited fetcher, the  *)
(* markdown listing parser, the classification rules, the visa detector,   *)
(* the match-reason synthesizer and the search orchestrator.               *)
(*                                                                         *)
(* Text is modelled as a sequence of tokens (words, punctuation marks, the *)
(* "Markdown Content:" sentinel, list-item blocks).  String.includes is    *)
(* containment of a contiguous token phrase, toLowerCase maps every token  *)
(* to its lower-case form, and split/pop cut the sequence at a token.      *)
(***************************************************************************)
EXTENDS Integers, Sequences, FiniteSets, TLC

VARIABLES
    SEARCHES,     \* the configured, ordered list of SearchConfig
    JOBS,         \* the result map, as the sequence of its entries in insertion order
    pc,           \* where the single thread of control is suspended
    si,           \* main: index of the search of the for-of loop
    start,        \* processSearch: the page offset of the pagination loop
    parsed,       \* processSearch: listings of the current page not yet examined
    raw,          \* processSearch: the listing whose detail page is being fetched
    url,          \* fetchText: the url parameter of the pending call
    attempt,      \* fetchText: the attempt parameter of the pending call
    output,       \* the writes made to src/data/jobs.json
    last,         \* history: the last event of the run (what the console shows last)
    hist,         \* fetchText: the responses received by the current call
    fetchResult,  \* fetchText: how the last finished call ended
    arg,          \* input of the pure function under check
    ret           \* its result

vars == <<SEARCHES, JOBS, pc, si, start, parsed, raw, url, attempt, output, last,
          hist, fetchResult, arg, ret>>

\* the variables only the checks of single functions use
aux == <<hist, fetchResult, arg, ret>>

-----------------------------------------------------------------------------
(* Text primitives                                                         *)

None == <<"<undefined>">>

SENTINEL == "Markdown Content:"

\* the upper-case and capitalised words of the model and their lower-case forms
LowerTable ==
    ("Belgium" :> "belgium")
    @@ ("Ireland" :> "ireland")
    @@ ("Italy" :> "italy")
    @@ ("Netherlands" :> "netherlands")
    @@ ("United" :> "united")
    @@ ("Kingdom" :> "kingdom")
    @@ ("Brussels" :> "brussels")
    @@ ("Antwerp" :> "antwerp")
    @@ ("Dublin" :> "dublin")
    @@ ("Antarctica" :> "antarctica")
    @@ ("Remote" :> "remote")
    @@ ("Digital" :> "digital")
    @@ ("Marketing" :> "marketing")
    @@ ("Manager" :> "manager")
    @@ ("Social" :> "social")
    @@ ("Media" :> "media")
    @@ ("Content" :> "content")
    @@ ("Creator" :> "creator")
    @@ ("Brand" :> "brand")
    @@ ("SEO" :> "seo")
    @@ ("Specialist" :> "specialist")
    @@ ("Engineer" :> "engineer")
    @@ ("Accountant" :> "accountant")
    @@ ("Acme" :> "acme")
    @@ ("Twine" :> "twine")
    @@ ("Visa" :> "visa")
    @@ ("Sponsorship" :> "sponsorship")
    @@ ("No" :> "no")
    @@ ("HTTP" :> "http")
    @@ ("ERROR" :> "error")
    @@ ("Too" :> "too")
    @@ ("Many" :> "many")
    @@ ("Requests" :> "requests")
    @@ ("Medical" :> "medical")
    @@ ("Writer" :> "writer")
    @@ ("Nurse" :> "nurse")
    @@ ("Senior" :> "senior")
    @@ ("Video" :> "video")
    @@ ("Paid" :> "paid")

\* String.prototype.toLowerCase, token by token
LowerTok(t) == IF t \in DOMAIN LowerTable THEN LowerTable[t] ELSE t

ToLower(text) == [i \in 1..Len(text) |-> LowerTok(text[i])]

\* String.prototype.includes
Includes(text, phrase) ==
    \E i \in 1..(Len(text) - Len(phrase) + 1) :
        SubSeq(text, i, i + Len(phrase) - 1) = phrase

\* String.prototype.indexOf (1-based; 0 when absent)
IndexOf(text, phrase) ==
    IF Includes(text, phrase)
    THEN CHOOSE i \in 1..(Len(text) - Len(phrase) + 1) :
            /\ SubSeq(text, i, i + Len(phrase) - 1) = phrase
            /\ \A j \in 1..(i - 1) : SubSeq(text, j, j + Len(phrase) - 1) # phrase
    ELSE 0

\* text.split(tok).pop(): what follows the last occurrence of tok
SplitPop(text, tok) ==
    IF \E i \in 1..Len(text) : text[i] = tok
    THEN LET cut == CHOOSE i \in 1..Len(text) :
                        /\ text[i] = tok
                        /\ \A j \in (i + 1)..Len(text) : text[j] # tok
         IN SubSeq(text, cut + 1, Len(text))
    ELSE text

\* text.split(tok)[0]: what precedes the first occurrence of tok
SplitFirst(text, tok) ==
    IF \E i \in 1..Len(text) : text[i] = tok
    THEN LET first == CHOOSE i \in 1..Len(text) :
                         /\ text[i] = tok
                         /\ \A j \in 1..(i - 1) : text[j] # tok
         IN SubSeq(text, 1, first - 1)
    ELSE text

\* `${a} ${b}`
Join(a, b) == a \o b

RECURSIVE Flatten(_)
\* meta.join(" ")
Flatten(parts) ==
    IF parts = <<>> THEN <<>> ELSE Head(parts) \o Flatten(Tail(parts))

\* keywords.some((kw) => text.includes(kw))
IncludesAny(text, phrases) == \E p \in phrases : Includes(text, p)

-----------------------------------------------------------------------------
(* Rate-limited fetcher: fetchText                                         *)

MAX_RETRIES == 4
STATUS_WAIT_MS == 3000
BODY_WAIT_MS == 4000

\* response.ok
ResponseOk(status) == status >= 200 /\ status <= 299

\* variant: the two patterns without the `i` flag
RateLimitMarkerCaseSensitive(payload) ==
    \/ Includes(payload, <<"HTTP", "ERROR", "429">>)
    \/ Includes(payload, <<"Too", "Many", "Requests">>)

\* /HTTP ERROR 429/i.test(payload) || /Too Many Requests/i.test(payload)
RateLimitMarker(payload) ==
    \/ Includes(ToLower(payload), <<"http", "error", "429">>)
    \/ Includes(ToLower(payload), <<"too", "many", "requests">>)

\* fetchText giving up one attempt early (`attempt >= 4`)
FetchOutcomeEarlyGiveUp(response, att) ==
    IF response.status = 429 \/ RateLimitMarker(response.body)
    THEN IF att >= MAX_RETRIES
         THEN [kind |-> "throw", error |-> "Exceeded retry attempts", status |-> response.status]
         ELSE [kind |-> "retry",
               waitMs |-> (IF response.status = 429 THEN STATUS_WAIT_MS ELSE BODY_WAIT_MS) * att]
    ELSE IF ~ResponseOk(response.status)
         THEN [kind |-> "throw", error |-> "Failed to fetch", status |-> response.status]
         ELSE [kind |-> "return", payload |-> response.body]

\* fetchText without its `!response.ok` test
FetchOutcomeNoOkTest(response, att) ==
    IF response.status = 429 \/ RateLimitMarker(response.body)
    THEN IF att > MAX_RETRIES
         THEN [kind |-> "throw", error |-> "Exceeded retry attempts", status |-> response.status]
         ELSE [kind |-> "retry",
               waitMs |-> (IF response.status = 429 THEN STATUS_WAIT_MS ELSE BODY_WAIT_MS) * att]
    ELSE [kind |-> "return", payload |-> response.body]

\* fetchText with one base delay for both detections
FetchOutcomeOneBase(response, att) ==
    IF response.status = 429 \/ RateLimitMarker(response.body)
    THEN IF att > MAX_RETRIES
         THEN [kind |-> "throw", error |-> "Exceeded retry attempts", status |-> response.status]
         ELSE [kind |-> "retry", waitMs |-> STATUS_WAIT_MS * att]
    ELSE IF ~ResponseOk(response.status)
         THEN [kind |-> "throw", error |-> "Failed to fetch", status |-> response.status]
         ELSE [kind |-> "return", payload |-> response.body]

\* What one pass through fetchText's body does with the response it awaited:
\* retry after a delay, throw, or return the payload.
FetchOutcome(response, att) ==
    IF response.status = 429
    THEN IF att > MAX_RETRIES
         THEN [kind |-> "throw", error |-> "Exceeded retry attempts", status |-> response.status]
         ELSE [kind |-> "retry", waitMs |-> STATUS_WAIT_MS * att]
    ELSE LET payload == response.body IN
         IF response.status = 429 \/ RateLimitMarker(payload)
         THEN IF att > MAX_RETRIES
              THEN [kind |-> "throw", error |-> "Exceeded retry attempts", status |-> response.status]
              ELSE [kind |-> "retry", waitMs |-> BODY_WAIT_MS * att]
         ELSE IF ~ResponseOk(response.status)
              THEN [kind |-> "throw", error |-> "Failed to fetch", status |-> response.status]
              ELSE [kind |-> "return", payload |-> payload]

-----------------------------------------------------------------------------
(* Classification rules                                                    *)

COUNTRIES ==
    << <<"united", "kingdom">>, <<"netherlands">>, <<"belgium">>, <<"ireland">>,
       <<"italy">>, <<"tunisia">>, <<"united", "states">>, <<"france">>, <<"germany">> >>

\* word.charAt(0).toUpperCase() + word.slice(1)
UpperFirstTok(t) ==
    CASE t = "united" -> "United"
      [] t = "kingdom" -> "Kingdom"
      [] t = "netherlands" -> "Netherlands"
      [] t = "belgium" -> "Belgium"
      [] t = "ireland" -> "Ireland"
      [] t = "italy" -> "Italy"
      [] t = "tunisia" -> "Tunisia"
      [] t = "states" -> "States"
      [] t = "france" -> "France"
      [] t = "germany" -> "Germany"
      [] OTHER -> t

TitleCase(text) == [i \in 1..Len(text) |-> UpperFirstTok(text[i])]

\* tokens that are not made of the letters [A-Za-z] only
NonAlphaToks == {",", "?", "2", "429", "1", "3", "4", "5", "(", ")", SENTINEL}

\* /, *([A-Za-z ]+)$/.test(location)
CommaTail(location) ==
    \E i \in 1..Len(location) :
        /\ location[i] = ","
        /\ i < Len(location)
        /\ \A j \in (i + 1)..Len(location) : location[j] \notin NonAlphaToks

inferCountry(location) ==
    LET lower == ToLower(location)
        hits == {k \in 1..Len(COUNTRIES) : Includes(lower, COUNTRIES[k])}
    IN IF hits # {}
       THEN TitleCase(COUNTRIES[CHOOSE k \in hits : \A m \in hits : k <= m])
       ELSE IF CommaTail(location)
            THEN SplitPop(location, ",")
            ELSE None

isRemote(meta, location) ==
    LET text == ToLower(Join(location, Flatten(meta)))
    IN Includes(text, <<"remote">>) \/ Includes(text, <<"work", "from", "home">>)

REQUIRED ==
    { <<"marketing">>, <<"content">>, <<"social">>, <<"video">>, <<"digital">>,
      <<"creative">>, <<"communications">>, <<"community">>, <<"seo">>, <<"brand">> }

EXCLUDED ==
    { <<"engineer">>, <<"engineering">>, <<"developer">>, <<"scientist">>,
      <<"medical", "writer">>, <<"nurse">>, <<"physician">>, <<"chemist">> }

\* variant: a title with an inclusion keyword is relevant
isRelevantTitleInclusionWins(title) == IncludesAny(ToLower(title), REQUIRED)

isRelevantTitle(title) ==
    LET normalized == ToLower(title)
    IN IF ~IncludesAny(normalized, REQUIRED) THEN FALSE
       ELSE IF IncludesAny(normalized, EXCLUDED) THEN FALSE
       ELSE TRUE

-----------------------------------------------------------------------------
(* Visa evidence extractor                                                 *)

\* /(visa (sponsorship|support|assistance|provided|relocation)|work permit support|sponsor your visa)/
POSITIVE ==
    { <<"visa", "sponsorship">>, <<"visa", "support">>, <<"visa", "assistance">>,
      <<"visa", "provided">>, <<"visa", "relocation">>,
      <<"work", "permit", "support">>, <<"sponsor", "your", "visa">> }

\* /(no visa sponsorship|without sponsorship|must have (?:eu )?work permit|not provide sponsorship)/
NEGATIVE ==
    { <<"no", "visa", "sponsorship">>, <<"without", "sponsorship">>,
      <<"must", "have", "work", "permit">>, <<"must", "have", "eu", "work", "permit">>,
      <<"not", "provide", "sponsorship">> }

\* /(work permit|right to work)/
PERMIT == { <<"work", "permit">>, <<"right", "to", "work">> }

\* lower.match(re): null (None), or the leftmost match of one of the alternatives
Match(lower, phrases) ==
    LET found == {p \in phrases : Includes(lower, p)}
    IN IF found = {} THEN None
       ELSE CHOOSE p \in found : \A q \in found : IndexOf(lower, p) <= IndexOf(lower, q)

EVIDENCE_BEFORE == 160
EVIDENCE_AFTER == 200

Max(a, b) == IF a >= b THEN a ELSE b
Min(a, b) == IF a <= b THEN a ELSE b

\* The window around the keyword's first case-insensitive occurrence; positions
\* are counted in tokens (whitespace runs are single separators already).
extractEvidence(text, keyword) ==
    LET index == IndexOf(ToLower(text), ToLower(keyword)) - 1
    IN IF index = -1 THEN None
       ELSE LET from == Max(0, index - EVIDENCE_BEFORE)
                to == Min(Len(text), index + EVIDENCE_AFTER)
            IN SubSeq(text, from + 1, to)

\* detectVisa testing the negative group before the positive one
DetectVisaNegativeFirst(text) ==
    LET body == SplitPop(text, SENTINEL)
        lower == ToLower(body)
        positiveMatch == Match(lower, POSITIVE)
        negativeMatch == Match(lower, NEGATIVE)
        permitMatch == Match(lower, PERMIT)
    IN IF negativeMatch # None
       THEN [status |-> "No", evidence |-> extractEvidence(body, negativeMatch), detailText |-> body]
       ELSE IF positiveMatch # None
       THEN [status |-> "Yes", evidence |-> extractEvidence(body, positiveMatch), detailText |-> body]
       ELSE IF permitMatch # None
       THEN [status |-> "Not mentioned", evidence |-> extractEvidence(body, permitMatch), detailText |-> body]
       ELSE [status |-> "Not mentioned", evidence |-> None, detailText |-> body]

\* detectVisa after its fetch: the classification of the fetched text
DetectVisaText(text) ==
    LET body == SplitPop(text, SENTINEL)
        lower == ToLower(body)
        positiveMatch == Match(lower, POSITIVE)
        negativeMatch == Match(lower, NEGATIVE)
        permitMatch == Match(lower, PERMIT)
    IN IF positiveMatch # None
       THEN [status |-> "Yes", evidence |-> extractEvidence(body, positiveMatch), detailText |-> body]
       ELSE IF negativeMatch # None
       THEN [status |-> "No", evidence |-> extractEvidence(body, negativeMatch), detailText |-> body]
       ELSE IF permitMatch # None
       THEN [status |-> "Not mentioned", evidence |-> extractEvidence(body, permitMatch), detailText |-> body]
       ELSE [status |-> "Not mentioned", evidence |-> None, detailText |-> body]

\* the catch branch of processSearch's visa check
VisaFallback == [status |-> "Not mentioned", evidence |-> None, detailText |-> <<>>]

-----------------------------------------------------------------------------
(* Match-reason synthesizer                                                *)

skillRules ==
    << [keywords |-> { <<"social", "media">>, <<"social-media">>, <<"instagram">>, <<"tiktok">>,
                       <<"facebook">>, <<"x", "(formerly", "twitter)">>, <<"community", "manager">> },
        reason |-> "Direct social media and community management responsibilities"],
       [keywords |-> { <<"content", "creation">>, <<"content", "strategy">>, <<"copywriting">>,
                       <<"storytelling">>, <<"blog">>, <<"newsletter">> },
        reason |-> "High volume content creation and storytelling focus"],
       [keywords |-> { <<"video">>, <<"filming">>, <<"videography">>, <<"premiere", "pro">>,
                       <<"after", "effects">>, <<"motion", "graphics">> },
        reason |-> "Video production/editing skills explicitly requested"],
       [keywords |-> { <<"wordpress">>, <<"cms">>, <<"content", "management", "system">> },
        reason |-> "WordPress / CMS publishing experience highlighted"],
       [keywords |-> { <<"seo">>, <<"search", "engine">>, <<"organic", "traffic">>, <<"keyword", "research">> },
        reason |-> "SEO optimisation responsibilities included"],
       [keywords |-> { <<"campaign">>, <<"go-to-market">>, <<"marketing", "campaign">>, <<"campaign", "planning">> },
        reason |-> "Owns campaign planning and execution"],
       [keywords |-> { <<"adobe">>, <<"photoshop">>, <<"illustrator">>, <<"lightroom">>, <<"graphic", "design">> },
        reason |-> "Graphic design & Adobe Creative Suite skills required"],
       [keywords |-> { <<"video", "editing">>, <<"davinci", "resolve">>, <<"final", "cut">> },
        reason |-> "Hands-on video editing deliverables"],
       [keywords |-> { <<"analytics">>, <<"google", "analytics">>, <<"reporting">>, <<"data", "driven">> },
        reason |-> "Performance analytics & reporting responsibilities"] >>

\* Set.prototype.add on a set kept in insertion order
SetAdd(seq, x) ==
    IF \E i \in 1..Len(seq) : seq[i] = x THEN seq ELSE Append(seq, x)

RECURSIVE ApplyRules(_, _, _)
\* for (const rule of skillRules) { if (...) reasons.add(rule.reason) }
ApplyRules(reasons, rules, corpus) ==
    IF rules = <<>> THEN reasons
    ELSE ApplyRules(IF IncludesAny(corpus, Head(rules).keywords)
                    THEN SetAdd(reasons, Head(rules).reason)
                    ELSE reasons,
                    Tail(rules), corpus)

\* variant: the reasons of the rules alone
buildMatchReasonsNoLabel(rawJob, detailText) ==
    ApplyRules(<<>>, skillRules, ToLower(Join(rawJob.title, detailText)))

buildMatchReasons(rawJob, detailText) ==
    LET corpus == ToLower(Join(rawJob.title, detailText))
    IN ApplyRules(SetAdd(<<>>, "Matches " \o rawJob.search.label), skillRules, corpus)

-----------------------------------------------------------------------------
(* Markdown job parser                                                     *)

ViewPath == "linkedin.com/jobs/view"

\* What the regular expressions of parseMarkdown extract from each list-item
\* block of the upstream markdown: the title link, the company heading link
\* and the parts of the meta line.
BlockTable ==
    ("*B1" :> [hasTitle |-> TRUE, title |-> <<"Digital", "Marketing", "Manager">>,
               jobUrl |-> <<ViewPath, "1", "?", "refId=a">>,
               hasCompany |-> TRUE, company |-> <<"Acme">>, companyUrl |-> <<"linkedin.com/company", "acme">>,
               metaParts |-> << <<"Brussels", ",", "Belgium">>, <<"2", "days", "ago">> >>])
    @@
    ("*B2" :> [hasTitle |-> TRUE, title |-> <<"Social", "Media", "Manager">>,
               jobUrl |-> <<ViewPath, "1">>,
               hasCompany |-> TRUE, company |-> <<"Acme">>, companyUrl |-> <<"linkedin.com/company", "acme">>,
               metaParts |-> << <<"Brussels", ",", "Belgium">>, <<"today">> >>])
    @@
    ("*B3" :> [hasTitle |-> TRUE, title |-> <<"Content", "Creator">>,
               jobUrl |-> <<ViewPath, "2", "?", "refId=b", "?", "x">>,
               hasCompany |-> TRUE, company |-> <<"Acme">>, companyUrl |-> <<"linkedin.com/company", "acme">>,
               metaParts |-> << <<"Antwerp", ",", "Belgium">> >>])
    @@
    ("*B4" :> [hasTitle |-> TRUE, title |-> <<"Brand", "Manager">>,
               jobUrl |-> <<ViewPath, "3">>,
               hasCompany |-> TRUE, company |-> <<"Acme">>, companyUrl |-> <<"linkedin.com/company", "acme">>,
               metaParts |-> << >>])
    @@
    ("*I1" :> [hasTitle |-> TRUE, title |-> <<"SEO", "Specialist">>,
               jobUrl |-> <<ViewPath, "4", "?", "refId=c">>,
               hasCompany |-> TRUE, company |-> <<"Acme">>, companyUrl |-> <<"linkedin.com/company", "acme">>,
               metaParts |-> << <<"Dublin", ",", "Ireland">>, <<"3", "weeks", "ago">> >>])
    @@
    ("*R1" :> [hasTitle |-> TRUE, title |-> <<"Remote", "Marketing", "Manager">>,
               jobUrl |-> <<ViewPath, "5">>,
               hasCompany |-> TRUE, company |-> <<"Acme">>, companyUrl |-> <<"linkedin.com/company", "acme">>,
               metaParts |-> << <<"Brussels", ",", "Belgium">> >>])
    @@
    ("*R2" :> [hasTitle |-> TRUE, title |-> <<"Marketing", "Manager">>,
               jobUrl |-> <<ViewPath, "5">>,
               hasCompany |-> TRUE, company |-> <<"Acme">>, companyUrl |-> <<"linkedin.com/company", "acme">>,
               metaParts |-> << <<"Brussels", ",", "Belgium">>, <<"Remote">> >>])
    @@
    ("*E1" :> [hasTitle |-> TRUE, title |-> <<"Marketing", "Engineer">>,
               jobUrl |-> <<ViewPath, "5">>,
               hasCompany |-> TRUE, company |-> <<"Acme">>, companyUrl |-> <<"linkedin.com/company", "acme">>,
               metaParts |-> << <<"Brussels", ",", "Belgium">> >>])
    @@
    ("*T1" :> [hasTitle |-> TRUE, title |-> <<"Content", "Creator">>,
               jobUrl |-> <<ViewPath, "5">>,
               hasCompany |-> TRUE, company |-> <<"Twine">>, companyUrl |-> <<"linkedin.com/company", "twine">>,
               metaParts |-> << <<"Brussels", ",", "Belgium">> >>])
    @@
    ("*A1" :> [hasTitle |-> TRUE, title |-> <<"Brand", "Manager">>,
               jobUrl |-> <<ViewPath, "5">>,
               hasCompany |-> TRUE, company |-> <<"Acme">>, companyUrl |-> <<"linkedin.com/company", "acme">>,
               metaParts |-> << <<"Base", ",", "Antarctica">> >>])
    @@
    ("*X1" :> [hasTitle |-> TRUE, title |-> <<"Digital", "Marketing", "Manager">>,
               jobUrl |-> <<ViewPath, "5">>,
               hasCompany |-> FALSE, company |-> <<>>, companyUrl |-> <<>>,
               metaParts |-> << <<"Brussels", ",", "Belgium">> >>])
    @@
    ("*X2" :> [hasTitle |-> TRUE, title |-> <<"Digital", "Marketing", "Manager">>,
               jobUrl |-> <<"linkedin.com/company", "acme">>,
               hasCompany |-> TRUE, company |-> <<"Acme">>, companyUrl |-> <<"linkedin.com/company", "acme">>,
               metaParts |-> << <<"Brussels", ",", "Belgium">> >>])

\* numbered list items of one shape, each with a job URL of its own and no
\* meta line, for runs that fill the result map
BulkPageLen == 25
BulkSearches == 4
BulkCount == BulkSearches * 3 * BulkPageLen

BulkTok(n) == "*N" \o ToString(n)

BulkToks == {BulkTok(n) : n \in 1..BulkCount}

BulkBlock(n) ==
    [hasTitle |-> TRUE, title |-> <<"Brand", "Manager">>,
     jobUrl |-> <<ViewPath, ToString(100 + n), "?", "refId=n">>,
     hasCompany |-> TRUE, company |-> <<"Acme">>, companyUrl |-> <<"linkedin.com/company", "acme">>,
     metaParts |-> << >>]

BulkTable == [tok \in BulkToks |-> BulkBlock(CHOOSE n \in 1..BulkCount : BulkTok(n) = tok)]

BlockOf(tok) == IF tok \in DOMAIN BlockTable THEN BlockTable[tok] ELSE BulkTable[tok]

\* block.startsWith("*")
IsBlockTok(tok) == tok \in DOMAIN BlockTable \/ tok \in BulkToks

AgoUnits == {"day", "days", "hour", "hours", "week", "weeks", "month", "months"}

\* /\b(day|hour|week|month)s?\s+ago\b/i.test(item)
IsAgo(item) == \E u \in AgoUnits : Includes(ToLower(item), <<u, "ago">>)

\* /\b(today|yesterday)\b/i.test(item)
IsToday(item) == Includes(ToLower(item), <<"today">>) \/ Includes(ToLower(item), <<"yesterday">>)

\* metaParts.find(pred) ?? ""  for the two patterns in turn
PostedText(metaParts) ==
    LET ago == {i \in 1..Len(metaParts) : IsAgo(metaParts[i])}
        day == {i \in 1..Len(metaParts) : IsToday(metaParts[i])}
    IN IF ago # {} THEN metaParts[CHOOSE i \in ago : \A j \in ago : i <= j]
       ELSE IF day # {} THEN metaParts[CHOOSE i \in day : \A j \in day : i <= j]
       ELSE <<>>

\* x ?? y
Coalesce(x, y) == IF x = None THEN y ELSE x

\* the body of parseMarkdown's loop for a block that passes its three tests
RawJobOf(block, search) ==
    LET location == IF block.metaParts = <<>> THEN search.country ELSE Head(block.metaParts)
        metaParts == IF block.metaParts = <<>> THEN <<>> ELSE Tail(block.metaParts)
    IN [title |-> block.title,
        company |-> block.company,
        jobUrl |-> block.jobUrl,
        companyUrl |-> block.companyUrl,
        locationLine |-> location,
        postedText |-> PostedText(metaParts),
        metaTags |-> metaParts,
        countryGuess |-> Coalesce(inferCountry(location), search.country),
        search |-> search]

\* the three `continue` tests of parseMarkdown's loop
BlockAccepted(block) ==
    /\ block.hasTitle
    /\ Includes(block.jobUrl, <<ViewPath>>)
    /\ block.hasCompany

RECURSIVE ParseBlocks(_, _)
ParseBlocks(blocks, search) ==
    IF blocks = <<>> THEN <<>>
    ELSE LET block == BlockOf(Head(blocks))
             rest == ParseBlocks(Tail(blocks), search)
         IN IF BlockAccepted(block) THEN <<RawJobOf(block, search)>> \o rest ELSE rest

parseMarkdown(markdown, search) ==
    LET cleaned == SplitPop(markdown, SENTINEL)
    IN IF cleaned = <<>> THEN <<>>
       ELSE ParseBlocks(SelectSeq(cleaned, IsBlockTok), search)

-----------------------------------------------------------------------------
(* Result map and output                                                   *)

\* JOBS.has(key)
JobsHas(jobs, key) == \E i \in 1..Len(jobs) : jobs[i].id = key

\* JOBS.set(entry.id, entry): a present key keeps its place and gets the new value
JobsSet(jobs, entry) ==
    IF JobsHas(jobs, entry.id)
    THEN [i \in 1..Len(jobs) |-> IF jobs[i].id = entry.id THEN entry ELSE jobs[i]]
    ELSE Append(jobs, entry)

\* the counting loop of countByCountry over the values of the map
CountMatching(jobs, country) ==
    Cardinality({i \in 1..Len(jobs) : Includes(ToLower(jobs[i].country), ToLower(country))})

countByCountry(country) == CountMatching(JOBS, country)

\* variant: the listing URL is used as it stands
CanonicalUrlKeepQuery(jobUrl) == jobUrl

\* raw.jobUrl.split("?")[0]
CanonicalUrl(jobUrl) == SplitFirst(jobUrl, "?")

JobEntryOf(rawJob, visaInfo) ==
    LET canonicalUrl == CanonicalUrl(rawJob.jobUrl)
    IN [id |-> canonicalUrl,
        title |-> rawJob.title,
        company |-> rawJob.company,
        applyUrl |-> canonicalUrl,
        companyUrl |-> rawJob.companyUrl,
        location |-> rawJob.locationLine,
        country |-> rawJob.countryGuess,
        posted |-> IF rawJob.postedText = <<>> THEN <<"Recently", "posted">> ELSE rawJob.postedText,
        meta |-> rawJob.metaTags,
        matchReasons |-> buildMatchReasons(rawJob, visaInfo.detailText),
        visa |-> [status |-> visaInfo.status, evidence |-> visaInfo.evidence],
        searchLabel |-> rawJob.search.label,
        searchKeywords |-> rawJob.search.keywords,
        source |-> "LinkedIn"]

\* the words of the model in the order localeCompare gives them
Collation ==
    << "accountant", "acme", "antarctica", "antwerp", "base", "belgium", "brand", "brussels",
       "content", "creator", "digital", "dublin", "engineer", "ireland", "italy", "kingdom",
       "manager", "marketing", "media", "netherlands", "remote", "seo", "social",
       "specialist", "twine", "united" >>

TokRank(t) ==
    IF \E k \in 1..Len(Collation) : Collation[k] = LowerTok(t)
    THEN CHOOSE k \in 1..Len(Collation) : Collation[k] = LowerTok(t)
    ELSE Len(Collation) + 1

RECURSIVE localeCompare(_, _)
\* a.localeCompare(b): negative, zero or positive
localeCompare(a, b) ==
    IF a = <<>> /\ b = <<>> THEN 0
    ELSE IF a = <<>> THEN -1
    ELSE IF b = <<>> THEN 1
    ELSE IF TokRank(Head(a)) < TokRank(Head(b)) THEN -1
    ELSE IF TokRank(Head(a)) > TokRank(Head(b)) THEN 1
    ELSE localeCompare(Tail(a), Tail(b))

\* the comparator of main's sort
CompareJobs(a, b) ==
    IF localeCompare(a.country, b.country) # 0
    THEN localeCompare(a.country, b.country)
    ELSE localeCompare(a.title, b.title)

RECURSIVE SortJobs(_)
\* Array.prototype.sort with CompareJobs (stable): the elements that belong
\* before the middle one, the middle one, the elements that belong after it
SortJobs(jobs) ==
    IF Len(jobs) <= 1 THEN jobs
    ELSE LET k == (Len(jobs) + 1) \div 2
             pivot == jobs[k]
             left == SubSeq(jobs, 1, k - 1)
             right == SubSeq(jobs, k + 1, Len(jobs))
             NotAfter(x) == CompareJobs(x, pivot) <= 0
             Before(x) == CompareJobs(x, pivot) < 0
             After(x) == CompareJobs(x, pivot) > 0
             NotBefore(x) == CompareJobs(x, pivot) >= 0
         IN SortJobs(SelectSeq(left, NotAfter) \o SelectSeq(right, Before))
            \o <<pivot>>
            \o SortJobs(SelectSeq(left, After) \o SelectSeq(right, NotBefore))

\* variant: the records in the order of the map
OutputPayloadUnsorted(jobs) == [total |-> Len(jobs), jobs |-> jobs]

OutputPayload(jobs) ==
    LET items == SortJobs(jobs)
    IN [total |-> Len(items), jobs |-> items]

-----------------------------------------------------------------------------
(* Configuration and environment                                           *)

MAX_START == 50
PAGE_STEP == 25
GLOBAL_CAP == 200

MaxSearches == 2
MaxPageLen == 3
CapLarge == 2
CapSmall == 1

\* SearchConfig entries in the shape of SEARCHES, with caps scaled to the bounds
SearchPool ==
    { [country |-> <<"Belgium">>, locationParam |-> <<"Belgium">>,
       keywords |-> <<"digital", "marketing">>,
       label |-> "Digital Marketing (Belgium)", maxJobs |-> CapLarge],
      [country |-> <<"Belgium">>, locationParam |-> <<"Brussels", ",", "Brussels", "Region", ",", "Belgium">>,
       keywords |-> <<"social", "media", "manager">>,
       label |-> "Social Media Manager (Belgium)", maxJobs |-> CapSmall],
      [country |-> <<"Ireland">>, locationParam |-> <<"Dublin", ",", "County", "Dublin", ",", "Ireland">>,
       keywords |-> <<"digital", "marketing", "manager">>,
       label |-> "Digital Marketing Manager (Ireland)", maxJobs |-> CapSmall] }

SeqsUpTo(S, n) == UNION {[1..k -> S] : k \in 0..n}

\* lists of up to MaxSearches different searches of the pool, in any order
Configs ==
    {c \in SeqsUpTo(SearchPool, MaxSearches) \ {<<>>} : \A i, j \in 1..Len(c) : c[i] = c[j] => i = j}

\* the proxied listing-search URL of processSearch
SearchUrl(search, offset) ==
    <<"https://r.jina.ai/", "https://www.linkedin.com/jobs-guest/jobs/api/seeMoreJobPostings/search", "?", "keywords=">>
    \o search.keywords \o <<"location=">> \o search.locationParam
    \o <<"f_TPR=r604800", "f_WT=2", "start=", ToString(offset)>>

\* the proxied detail URL of detectVisa
ProxyUrl(jobUrl) == <<"https://r.jina.ai/">> \o jobUrl

\* list-item blocks the listing pages of the run are made of
PageBlocks == <<"*B1", "*B2", "*B3", "*B4">>

PageToks == {PageBlocks[i] : i \in 1..Len(PageBlocks)}

\* the elements of blocks at the places I, in their order
PickOf(blocks, I) ==
    [k \in 1..Cardinality(I) |->
        blocks[CHOOSE i \in I : Cardinality({j \in I : j < i}) = k - 1]]

\* the blocks of PageBlocks at the places I, in their order
Pick(I) == PickOf(PageBlocks, I)

\* listing pages: the sentinel and up to MaxPageLen blocks; pages without the
\* sentinel; a page whose blocks all precede the sentinel
PageBodies ==
    {<<"Title:", SENTINEL>> \o Pick(I) :
        I \in {J \in SUBSET (1..Len(PageBlocks)) : Cardinality(J) <= MaxPageLen}}
    \cup SeqsUpTo(PageToks, 1)
    \cup { <<"*B3", SENTINEL>>, <<SENTINEL, "*X1", "*R1">> }

DetailBodies ==
    { <<"Title:", "Brand", SENTINEL, "We", "offer", "Visa", "sponsorship", "campaign">> }

\* rate-limited and failed responses
ErrorResponses ==
    { [status |-> 429, body |-> <<>>],
      [status |-> 200, body |-> <<SENTINEL, "HTTP", "ERROR", "429">>],
      [status |-> 500, body |-> <<"Too", "Many", "Requests">>],
      [status |-> 404, body |-> <<"Not", "Found">>] }

PageResponses == {[status |-> 200, body |-> b] : b \in PageBodies} \cup ErrorResponses

DetailResponses == {[status |-> 200, body |-> b] : b \in DetailBodies} \cup ErrorResponses

-----------------------------------------------------------------------------
(* Search orchestrator: main and processSearch                             *)

NoRaw == [title |-> None]
NoUrl == <<>>
NoResult == [kind |-> "none"]

\* an entry of the history variable: the event, how many listings of the page
\* were not examined when it happened, and how the visa check of the entry
\* just inserted ended ("" when the event inserts nothing)
Event(ev, left) == [ev |-> ev, left |-> left, visa |-> ""]

Inserted(ev, left, visa) == [ev |-> ev, left |-> left, visa |-> visa]

Init ==
    /\ SEARCHES \in Configs
    /\ JOBS = <<>>
    /\ pc = "main"
    /\ si = 1
    /\ start = 0
    /\ parsed = <<>>
    /\ raw = NoRaw
    /\ url = NoUrl
    /\ attempt = 1
    /\ output = <<>>
    /\ last = Event("start", 0)
    /\ hist = <<>>
    /\ fetchResult = NoResult
    /\ arg = <<>>
    /\ ret = <<>>

\* a call fetchText(u) is made: attempt takes its default
CallFetch(u) == url' = u /\ attempt' = 1

\* no call of fetchText is pending
NoFetch == url' = NoUrl /\ attempt' = 1

\* processSearch returns or breaks out of its pagination loop; main awaits
\* delay(2000) and takes the next search
LeaveSearch ==
    /\ pc' = "main"
    /\ si' = si + 1
    /\ start' = 0
    /\ parsed' = <<>>
    /\ raw' = NoRaw
    /\ NoFetch

\* the same, with the reason recorded
EndSearch(why) == LeaveSearch /\ last' = Event(why, Len(parsed))

\* variant: the loop test admits one offset beyond MAX_START
NextPageBeyond ==
    IF start <= MAX_START
    THEN /\ pc' = "fetchPage"
         /\ start' = start + PAGE_STEP
         /\ parsed' = <<>>
         /\ raw' = NoRaw
         /\ si' = si
         /\ CallFetch(SearchUrl(SEARCHES[si], start + PAGE_STEP))
         /\ last' = Event("next page", Len(parsed))
    ELSE EndSearch("pages done")

\* variant: the loop goes on with the same offset while it is within MAX_START
NextPageSameStart ==
    IF start <= MAX_START
    THEN /\ pc' = "fetchPage"
         /\ start' = start
         /\ parsed' = <<>>
         /\ raw' = NoRaw
         /\ si' = si
         /\ CallFetch(SearchUrl(SEARCHES[si], start))
         /\ last' = Event("next page", Len(parsed))
    ELSE EndSearch("pages done")

\* the inner loop is left; delay(1400), start += 25 and the loop test
NextPage ==
    IF start + PAGE_STEP <= MAX_START
    THEN /\ pc' = "fetchPage"
         /\ start' = start + PAGE_STEP
         /\ parsed' = <<>>
         /\ raw' = NoRaw
         /\ si' = si
         /\ CallFetch(SearchUrl(SEARCHES[si], start + PAGE_STEP))
         /\ last' = Event("next page", Len(parsed))
    ELSE EndSearch("pages done")

\* variant: the cap test with `>`
CapReachedStrict(jobs, search) == CountMatching(jobs, search.country) > search.maxJobs

\* `countByCountry(search.country) >= search.maxJobs`, in main and in processSearch
CapReached(jobs, search) == CountMatching(jobs, search.country) >= search.maxJobs

\* main: `if (countByCountry(search.country) >= search.maxJobs) continue`
MainSkip ==
    /\ pc = "main"
    /\ si <= Len(SEARCHES)
    /\ CapReached(JOBS, SEARCHES[si])
    /\ si' = si + 1
    /\ last' = Event("search skipped", 0)
    /\ UNCHANGED <<SEARCHES, JOBS, pc, start, parsed, raw, url, attempt, output, aux>>

\* variant: main calls processSearch without the cap test
MainProcessNoCapTest ==
    /\ pc = "main"
    /\ si <= Len(SEARCHES)
    /\ pc' = "fetchPage"
    /\ start' = 0
    /\ CallFetch(SearchUrl(SEARCHES[si], 0))
    /\ last' = Event("search started", 0)
    /\ UNCHANGED <<SEARCHES, JOBS, si, parsed, raw, output, aux>>

\* main calls processSearch, which requests its first page
MainProcess ==
    /\ pc = "main"
    /\ si <= Len(SEARCHES)
    /\ ~CapReached(JOBS, SEARCHES[si])
    /\ pc' = "fetchPage"
    /\ start' = 0
    /\ CallFetch(SearchUrl(SEARCHES[si], 0))
    /\ last' = Event("search started", 0)
    /\ UNCHANGED <<SEARCHES, JOBS, si, parsed, raw, output, aux>>

\* variant: the file is written whenever main has the control, also between
\* two searches
MainWriteEarly ==
    /\ pc = "main"
    /\ output' = Append(output, OutputPayload(JOBS))
    /\ pc' = "done"
    /\ last' = Event("saved", 0)
    /\ UNCHANGED <<SEARCHES, JOBS, si, start, parsed, raw, url, attempt, aux>>

\* main after its loop: sort, wrap and write the output file
MainWrite ==
    /\ pc = "main"
    /\ si > Len(SEARCHES)
    /\ output' = Append(output, OutputPayload(JOBS))
    /\ pc' = "done"
    /\ last' = Event("saved", 0)
    /\ UNCHANGED <<SEARCHES, JOBS, si, start, parsed, raw, url, attempt, aux>>

\* the responses one call of fetchText may meet before it ends: up to
\* MAX_RETRIES rate-limited ones, and one more
FetchRuns(responses) ==
    {<<final>> : final \in responses}
    \cup {[i \in 1..(k + 1) |-> IF i <= k THEN limited ELSE final] :
             k \in 1..MAX_RETRIES,
             limited \in {r \in responses : FetchOutcome(r, 1).kind = "retry"},
             final \in responses}

RECURSIVE fetchText(_, _)
\* a call fetchText(url, att) against the responses of run: each pass ends the
\* call or waits and calls fetchText(url, att + 1)
fetchText(run, att) ==
    IF run = <<>> THEN [kind |-> "pending"]
    ELSE LET outcome == FetchOutcome(Head(run), att)
         IN IF outcome.kind = "retry" THEN fetchText(Tail(run), att + 1) ELSE outcome

\* how a call fetchText(url) can end when the proxy answers with responses
FetchEnds(responses) ==
    {fetchText(run, 1) : run \in FetchRuns(responses)} \ {[kind |-> "pending"]}

\* variant: the error of the listing-page fetch is not caught and main's
\* catch handler ends the process
PageFailedRethrow(outcome) ==
    /\ outcome.kind = "throw"
    /\ pc' = "failed"
    /\ last' = Event("run failed", Len(parsed))
    /\ UNCHANGED <<SEARCHES, JOBS, si, start, parsed, raw, url, attempt, output, aux>>

\* the listing-page fetch throws: the catch block breaks out of the pagination loop
PageFailed(outcome) ==
    /\ outcome.kind = "throw"
    /\ EndSearch("page fetch failed")
    /\ UNCHANGED <<SEARCHES, JOBS, output, aux>>

\* the listing page is returned: sentinel test, parse, empty test
PageFetched(outcome) ==
    /\ outcome.kind = "return"
    /\ LET text == outcome.payload
           listings == parseMarkdown(text, SEARCHES[si])
       IN IF ~Includes(text, <<SENTINEL>>) THEN EndSearch("no sentinel")
          ELSE IF listings = <<>> THEN EndSearch("no listings")
          ELSE /\ pc' = "listings"
               /\ parsed' = listings
               /\ NoFetch
               /\ last' = Event("page parsed", Len(listings))
               /\ UNCHANGED <<si, start, raw>>
    /\ UNCHANGED <<SEARCHES, JOBS, output, aux>>

\* processSearch resumes from `await fetchText(url)`
PageResumed(outcomes) ==
    /\ pc = "fetchPage"
    /\ \E outcome \in outcomes :
          \/ PageFailed(outcome)
          \/ PageFetched(outcome)

PageEnds == FetchEnds(PageResponses)

PageResponse == PageResumed(PageEnds)

\* variant: the inner loop without its company test
SkipReasonNoCompany(rawJob, search, jobs) ==
    IF Includes(ToLower(rawJob.title), <<"remote">>) THEN "remote title"
    ELSE IF isRemote(rawJob.metaTags, rawJob.locationLine) THEN "remote meta"
    ELSE IF ~isRelevantTitle(rawJob.title) THEN "irrelevant"
    ELSE IF JobsHas(jobs, CanonicalUrl(rawJob.jobUrl)) THEN "duplicate"
    ELSE IF ~Includes(ToLower(rawJob.countryGuess), ToLower(search.country)) THEN "wrong country"
    ELSE "none"

\* variant: without the test `JOBS.has(key)`
SkipReasonNoDuplicate(rawJob, search, jobs) ==
    IF Includes(ToLower(rawJob.title), <<"remote">>) THEN "remote title"
    ELSE IF isRemote(rawJob.metaTags, rawJob.locationLine) THEN "remote meta"
    ELSE IF ~isRelevantTitle(rawJob.title) THEN "irrelevant"
    ELSE IF Includes(ToLower(rawJob.company), <<"twine">>) THEN "company"
    ELSE IF ~Includes(ToLower(rawJob.countryGuess), ToLower(search.country)) THEN "wrong country"
    ELSE "none"

\* the six `continue` tests of processSearch's inner loop
SkipReason(rawJob, search, jobs) ==
    IF Includes(ToLower(rawJob.title), <<"remote">>) THEN "remote title"
    ELSE IF isRemote(rawJob.metaTags, rawJob.locationLine) THEN "remote meta"
    ELSE IF ~isRelevantTitle(rawJob.title) THEN "irrelevant"
    ELSE IF Includes(ToLower(rawJob.company), <<"twine">>) THEN "company"
    ELSE IF JobsHas(jobs, CanonicalUrl(rawJob.jobUrl)) THEN "duplicate"
    ELSE IF ~Includes(ToLower(rawJob.countryGuess), ToLower(search.country)) THEN "wrong country"
    ELSE "none"

\* variant: the size test with `>`
GlobalCapReachedLate(jobs) == Len(jobs) > GLOBAL_CAP

\* `if (JOBS.size >= 200) break`
GlobalCapReached(jobs) == Len(jobs) >= GLOBAL_CAP

\* variant: detectVisa is called before the duplicate and country tests
ListingSkippedAfterVisa ==
    /\ pc = "listings"
    /\ parsed # <<>>
    /\ SkipReason(Head(parsed), SEARCHES[si], JOBS) # "none"
    /\ IF SkipReason(Head(parsed), SEARCHES[si], JOBS) \in {"duplicate", "wrong country"}
       THEN /\ pc' = "fetchDetail"
            /\ raw' = Head(parsed)
            /\ parsed' = Tail(parsed)
            /\ CallFetch(ProxyUrl(Head(parsed).jobUrl))
            /\ last' = Event("listing accepted", Len(parsed) - 1)
            /\ UNCHANGED <<SEARCHES, JOBS, si, start, output, aux>>
       ELSE /\ parsed' = Tail(parsed)
            /\ last' = Event(SkipReason(Head(parsed), SEARCHES[si], JOBS), Len(parsed) - 1)
            /\ UNCHANGED <<SEARCHES, JOBS, pc, si, start, raw, url, attempt, output, aux>>

\* an iteration of the inner loop ends in `continue`
ListingSkipped ==
    /\ pc = "listings"
    /\ parsed # <<>>
    /\ SkipReason(Head(parsed), SEARCHES[si], JOBS) # "none"
    /\ parsed' = Tail(parsed)
    /\ last' = Event(SkipReason(Head(parsed), SEARCHES[si], JOBS), Len(parsed) - 1)
    /\ UNCHANGED <<SEARCHES, JOBS, pc, si, start, raw, url, attempt, output, aux>>

\* variant: the loop takes the listings of a page from the last to the first
ListingPassedLast ==
    /\ pc = "listings"
    /\ parsed # <<>>
    /\ SkipReason(parsed[Len(parsed)], SEARCHES[si], JOBS) = "none"
    /\ pc' = "fetchDetail"
    /\ raw' = parsed[Len(parsed)]
    /\ parsed' = SubSeq(parsed, 1, Len(parsed) - 1)
    /\ CallFetch(ProxyUrl(parsed[Len(parsed)].jobUrl))
    /\ last' = Event("listing accepted", Len(parsed) - 1)
    /\ UNCHANGED <<SEARCHES, JOBS, si, start, output, aux>>

\* a listing passes the six tests: `break` when the map is full, else
\* delay(800) and detectVisa requests the detail page
ListingPassed ==
    /\ pc = "listings"
    /\ parsed # <<>>
    /\ SkipReason(Head(parsed), SEARCHES[si], JOBS) = "none"
    /\ IF GlobalCapReached(JOBS)
       THEN NextPage
       ELSE /\ pc' = "fetchDetail"
            /\ raw' = Head(parsed)
            /\ parsed' = Tail(parsed)
            /\ CallFetch(ProxyUrl(Head(parsed).jobUrl))
            /\ last' = Event("listing accepted", Len(parsed) - 1)
            /\ UNCHANGED <<si, start>>
    /\ UNCHANGED <<SEARCHES, JOBS, output, aux>>

\* the inner loop has run through the page
PageDone ==
    /\ pc = "listings"
    /\ parsed = <<>>
    /\ NextPage
    /\ UNCHANGED <<SEARCHES, JOBS, output, aux>>

\* variant: the entry is inserted and the loop goes on whatever the count
InsertEntryNoReturn(visaInfo, how) ==
    /\ JOBS' = JobsSet(JOBS, JobEntryOf(raw, visaInfo))
    /\ pc' = "listings"
    /\ raw' = NoRaw
    /\ NoFetch
    /\ last' = Inserted("inserted", Len(parsed), how)
    /\ UNCHANGED <<si, start, parsed>>

\* the rest of the iteration once visaInfo is known: build the entry, insert
\* it, and return from processSearch when the country's count reaches maxJobs
InsertEntry(visaInfo, how) ==
    LET entry == JobEntryOf(raw, visaInfo)
        jobs == JobsSet(JOBS, entry)
    IN /\ JOBS' = jobs
       /\ IF CapReached(jobs, SEARCHES[si])
          THEN /\ LeaveSearch
               /\ last' = Inserted("country cap", Len(parsed), how)
          ELSE /\ pc' = "listings"
               /\ raw' = NoRaw
               /\ NoFetch
               /\ last' = Inserted("inserted", Len(parsed), how)
               /\ UNCHANGED <<si, start, parsed>>

\* variant: a listing whose detail fetch throws is dropped
DetailFailedSkip(outcome) ==
    /\ outcome.kind = "throw"
    /\ pc' = "listings"
    /\ raw' = NoRaw
    /\ NoFetch
    /\ last' = Event("listing dropped", Len(parsed))
    /\ UNCHANGED <<SEARCHES, JOBS, si, start, parsed, output, aux>>

\* detectVisa's fetch throws: the catch block substitutes "Not mentioned"
DetailFailed(outcome) ==
    /\ outcome.kind = "throw"
    /\ InsertEntry(VisaFallback, "failed")
    /\ UNCHANGED <<SEARCHES, output, aux>>

\* detectVisa's fetch returns the detail page
DetailFetched(outcome) ==
    /\ outcome.kind = "return"
    /\ InsertEntry(DetectVisaText(outcome.payload), "checked")
    /\ UNCHANGED <<SEARCHES, output, aux>>

\* detectVisa resumes from `await fetchText(proxyUrl)`
DetailResumed(outcomes) ==
    /\ pc = "fetchDetail"
    /\ \E outcome \in outcomes :
          \/ DetailFailed(outcome)
          \/ DetailFetched(outcome)

DetailEnds == FetchEnds(DetailResponses)

DetailResponse == DetailResumed(DetailEnds)

Next ==
    \/ MainSkip
    \/ MainProcess
    \/ MainWrite
    \/ PageResponse
    \/ ListingSkipped
    \/ ListingPassed
    \/ PageDone
    \/ DetailResponse

Spec == Init /\ [][Next]_vars

-----------------------------------------------------------------------------
(* Runs that fill the result map: every listing page brings BulkPageLen     *)
(* listings, the first already recorded and the others new                  *)

BulkCapSmall == 50
BulkCapLarge == 250

BulkSearch(country, cap) ==
    [country |-> country, locationParam |-> country, keywords |-> <<"brand", "manager">>,
     label |-> "Brand Manager", maxJobs |-> cap]

BulkConfig ==
    << BulkSearch(<<"Belgium">>, BulkCapSmall), BulkSearch(<<"Belgium">>, BulkCapSmall),
       BulkSearch(<<"Ireland">>, BulkCapLarge), BulkSearch(<<"Italy">>, BulkCapLarge),
       BulkSearch(<<"Netherlands">>, BulkCapLarge) >>

BulkPage(from) == <<"Title:", SENTINEL>> \o [k \in 1..BulkPageLen |-> BulkTok(from + k - 1)]

BulkPageResponses == { [status |-> 200, body |-> BulkPage(Max(Len(JOBS), 1))] }

BulkDetailResponses ==
    { [status |-> 200, body |-> <<"Title:", SENTINEL>>],
      [status |-> 404, body |-> <<"Not", "Found">>],
      [status |-> 429, body |-> <<>>] }

InitCap ==
    /\ SEARCHES = BulkConfig
    /\ JOBS = <<>>
    /\ pc = "main"
    /\ si = 1
    /\ start = 0
    /\ parsed = <<>>
    /\ raw = NoRaw
    /\ url = NoUrl
    /\ attempt = 1
    /\ output = <<>>
    /\ last = Event("start", 0)
    /\ hist = <<>>
    /\ fetchResult = NoResult
    /\ arg = <<>>
    /\ ret = <<>>

PageResponseCap == PageResumed(FetchEnds(BulkPageResponses))

BulkDetailEnds == FetchEnds(BulkDetailResponses)

DetailResponseCap == DetailResumed(BulkDetailEnds)

NextCap ==
    \/ MainSkip
    \/ MainProcess
    \/ MainWrite
    \/ PageResponseCap
    \/ ListingSkipped
    \/ ListingPassed
    \/ PageDone
    \/ DetailResponseCap

SpecCap == InitCap /\ [][NextCap]_vars

-----------------------------------------------------------------------------
(* Runs over listing pages whose listings meet every skip filter            *)

FilterBlocks == <<"*B3", "*I1", "*R1", "*R2", "*E1", "*T1", "*A1">>

FilterPageResponses ==
    {[status |-> 200, body |-> <<"Title:", SENTINEL>> \o PickOf(FilterBlocks, I)] :
        I \in {J \in SUBSET (1..Len(FilterBlocks)) : Cardinality(J) \in 1..MaxPageLen}}
    \cup ErrorResponses

FilterPageEnds == FetchEnds(FilterPageResponses)

PageResponseFilter == PageResumed(FilterPageEnds)

NextFilter ==
    \/ MainSkip
    \/ MainProcess
    \/ MainWrite
    \/ PageResponseFilter
    \/ ListingSkipped
    \/ ListingPassed
    \/ PageDone
    \/ DetailResponse

SpecFilter == Init /\ [][NextFilter]_vars

-----------------------------------------------------------------------------
(* fetchText on its own: calls against arbitrary sequences of responses    *)

FetchUrls == { ProxyUrl(<<ViewPath, "1", "?", "refId=a">>), ProxyUrl(<<ViewPath, "2">>) }

FetchStatuses == {200, 404, 429}

FetchBodies ==
    { <<"Job", "page">>, <<"HTTP", "ERROR", "429">>, <<"too", "many", "requests">>,
      <<"Job", "page", "Too", "Many", "Requests">> }

FetchResponses == {[status |-> st, body |-> b] : st \in FetchStatuses, b \in FetchBodies}

InitFetch ==
    /\ SEARCHES = <<>>
    /\ JOBS = <<>>
    /\ pc = "fetch"
    /\ si = 1
    /\ start = 0
    /\ parsed = <<>>
    /\ raw = NoRaw
    /\ url \in FetchUrls
    /\ attempt = 1
    /\ output = <<>>
    /\ last = Event("start", 0)
    /\ hist = <<>>
    /\ fetchResult = NoResult
    /\ arg = <<>>
    /\ ret = <<>>

\* one pass through fetchText: the response to the pending request arrives
FetchRespond(response) ==
    /\ pc = "fetch"
    /\ LET outcome == FetchOutcome(response, attempt)
       IN /\ hist' = Append(hist, [url |-> url, status |-> response.status, body |-> response.body,
                                   attempt |-> attempt,
                                   waitMs |-> IF outcome.kind = "retry" THEN outcome.waitMs ELSE 0])
          /\ IF outcome.kind = "retry"
             THEN /\ attempt' = attempt + 1
                  /\ UNCHANGED <<pc, fetchResult>>
             ELSE /\ pc' = "fetched"
                  /\ fetchResult' = outcome
                  /\ UNCHANGED attempt
    /\ UNCHANGED <<SEARCHES, JOBS, si, start, parsed, raw, url, output, last, arg, ret>>

\* a caller makes the next top-level call fetchText(u)
FetchCall ==
    /\ pc = "fetched"
    /\ pc' = "fetch"
    /\ url' \in FetchUrls
    /\ attempt' = 1
    /\ hist' = <<>>
    /\ fetchResult' = NoResult
    /\ UNCHANGED <<SEARCHES, JOBS, si, start, parsed, raw, output, last, arg, ret>>

NextFetch ==
    \/ \E response \in FetchResponses : FetchRespond(response)
    \/ FetchCall

SpecFetch == InitFetch /\ [][NextFetch]_vars

-----------------------------------------------------------------------------
(* detectVisa's classification on its own: arbitrary fetched texts         *)

MaxBodyLen == 4

VisaVocab ==
    {"no", "visa", "Visa", "sponsorship", "without", "must", "have", "work", "permit",
     "support", "right", "to", SENTINEL}

VisaTexts == SeqsUpTo(VisaVocab, MaxBodyLen)

InitVisa ==
    /\ SEARCHES = <<>>
    /\ JOBS = <<>>
    /\ pc = "visa"
    /\ si = 1
    /\ start = 0
    /\ parsed = <<>>
    /\ raw = NoRaw
    /\ url = NoUrl
    /\ attempt = 1
    /\ output = <<>>
    /\ last = Event("start", 0)
    /\ hist = <<>>
    /\ fetchResult = NoResult
    /\ arg \in VisaTexts
    /\ ret = VisaFallback

\* detectVisa classifies the text its fetch returned
DetectVisaStep ==
    /\ pc = "visa"
    /\ ret' = DetectVisaText(arg)
    /\ pc' = "visaDone"
    /\ UNCHANGED <<SEARCHES, JOBS, si, start, parsed, raw, url, attempt, output, last,
                   hist, fetchResult, arg>>

NextVisa == DetectVisaStep

SpecVisa == InitVisa /\ [][NextVisa]_vars

-----------------------------------------------------------------------------
(* The run with every request of fetchText as a step of its own, under     *)
(* the assumption that requests are answered and delays elapse             *)

LiveSearches == 2
LivePageLen == 1

\* lists of up to LiveSearches different searches of the pool
LiveConfigs ==
    {c \in SeqsUpTo(SearchPool, LiveSearches) \ {<<>>} : \A i, j \in 1..Len(c) : c[i] = c[j] => i = j}

\* two listings with the same canonical URL and a third one
LiveBlocks == <<"*B1", "*B2", "*B3">>

\* listing pages of up to LivePageLen blocks, a page without the sentinel,
\* and the rate-limited and failed responses
LivePageResponses ==
    {[status |-> 200, body |-> <<"Title:", SENTINEL>> \o PickOf(LiveBlocks, I)] :
        I \in {J \in SUBSET (1..Len(LiveBlocks)) : Cardinality(J) <= LivePageLen}}
    \cup {[status |-> 200, body |-> <<"Sign", "in">>]}
    \cup ErrorResponses

InitLive ==
    /\ SEARCHES \in LiveConfigs
    /\ JOBS = <<>>
    /\ pc = "main"
    /\ si = 1
    /\ start = 0
    /\ parsed = <<>>
    /\ raw = NoRaw
    /\ url = NoUrl
    /\ attempt = 1
    /\ output = <<>>
    /\ last = Event("start", 0)
    /\ hist = <<>>
    /\ fetchResult = NoResult
    /\ arg = <<>>
    /\ ret = <<>>

\* fetchText retries the pending request: delay(waitMs), fetchText(url, attempt + 1)
FetchAgain ==
    /\ attempt' = attempt + 1
    /\ UNCHANGED <<SEARCHES, JOBS, pc, si, start, parsed, raw, url, output, last, aux>>

\* the pending listing-page request is answered
PageAnswered(response) ==
    /\ pc = "fetchPage"
    /\ LET outcome == FetchOutcome(response, attempt)
       IN IF outcome.kind = "retry" THEN FetchAgain ELSE PageResumed({outcome})

\* the pending detail-page request is answered
DetailAnswered(response) ==
    /\ pc = "fetchDetail"
    /\ LET outcome == FetchOutcome(response, attempt)
       IN IF outcome.kind = "retry" THEN FetchAgain ELSE DetailResumed({outcome})

NextLive ==
    \/ MainSkip
    \/ MainProcess
    \/ MainWrite
    \/ \E response \in LivePageResponses : PageAnswered(response)
    \/ ListingSkipped
    \/ ListingPassed
    \/ PageDone
    \/ \E response \in DetailResponses : DetailAnswered(response)

\* every awaited response or timer arrives and the continuation is run
SpecLive == InitLive /\ [][NextLive]_vars /\ WF_vars(NextLive)

-----------------------------------------------------------------------------
(* The pure functions on their own: arbitrary arguments                    *)

\* the variables of a run, which the check of a single function leaves alone
run == <<SEARCHES, JOBS, si, start, parsed, raw, url, attempt, output, last, hist, fetchResult>>

\* no run is going on
IdleRun ==
    /\ SEARCHES = <<>>
    /\ JOBS = <<>>
    /\ si = 1
    /\ start = 0
    /\ parsed = <<>>
    /\ raw = NoRaw
    /\ url = NoUrl
    /\ attempt = 1
    /\ output = <<>>
    /\ last = Event("start", 0)
    /\ hist = <<>>
    /\ fetchResult = NoResult

MaxTitleLen == 3

TitleVocab == {"Marketing", "SEO", "brand", "Engineer", "Medical", "writer", "Nurse", "Senior", "Manager"}

Titles == SeqsUpTo(TitleVocab, MaxTitleLen)

InitTitle ==
    /\ IdleRun
    /\ pc = "title"
    /\ arg \in Titles
    /\ ret = FALSE

\* a call isRelevantTitle(arg)
IsRelevantTitleStep ==
    /\ pc = "title"
    /\ ret' = isRelevantTitle(arg)
    /\ pc' = "titleDone"
    /\ UNCHANGED <<run, arg>>

NextTitle == IsRelevantTitleStep

SpecTitle == InitTitle /\ [][NextTitle]_vars

MaxDocLen == 3

\* the tokens of the documents handed to parseMarkdown: the sentinel,
\* well-formed and malformed listing blocks, and other text
DocVocab == {SENTINEL, "*B1", "*I1", "*X1", "*X2", "Sign", "in"}

Documents == SeqsUpTo(DocVocab, MaxDocLen)

InitParse ==
    /\ IdleRun
    /\ pc = "parse"
    /\ arg \in [markdown : Documents, search : SearchPool]
    /\ ret = <<>>

\* a call parseMarkdown(arg.markdown, arg.search)
ParseMarkdownStep ==
    /\ pc = "parse"
    /\ ret' = parseMarkdown(arg.markdown, arg.search)
    /\ pc' = "parseDone"
    /\ UNCHANGED <<run, arg>>

NextParse == ParseMarkdownStep

SpecParse == InitParse /\ [][NextParse]_vars

MaxDetailLen == 3

ReasonTitles == { <<"Brand", "Manager">>, <<"Social">>, <<"SEO", "Specialist">> }

ReasonLabels == {"Digital Marketing (Belgium)", "Social Media Manager (Belgium)"}

DetailVocab == {"social", "Media", "Video", "editing", "campaign", "analytics", "team", "SEO"}

DetailTexts == SeqsUpTo(DetailVocab, MaxDetailLen)

InitReasons ==
    /\ IdleRun
    /\ pc = "reasons"
    /\ arg \in {[rawJob |-> [title |-> t, search |-> [label |-> l]], detailText |-> d] :
                    t \in ReasonTitles, l \in ReasonLabels, d \in DetailTexts}
    /\ ret = <<>>

\* a call buildMatchReasons(arg.rawJob, arg.detailText)
BuildMatchReasonsStep ==
    /\ pc = "reasons"
    /\ ret' = buildMatchReasons(arg.rawJob, arg.detailText)
    /\ pc' = "reasonsDone"
    /\ UNCHANGED <<run, arg>>

NextReasons == BuildMatchReasonsStep

SpecReasons == InitReasons /\ [][NextReasons]_vars

-----------------------------------------------------------------------------
(* Properties of fetchText (checked under SpecFetch)                       *)

\* a response that carries a rate limit: status 429, or a marker in its body
IsRateLimited(r) == r.status = 429 \/ RateLimitMarker(r.body)

IsSuccess(status) == status \in 200..299

\* HTTP requests issued by the current call: one per response received, and
\* the pending one
Requests == Len(hist) + (IF pc = "fetch" THEN 1 ELSE 0)

\* C2: one call of fetchText makes at most 5 requests (4 retries), all to the
\* same URL; it goes on only after rate-limited responses; a successful
\* response that is not rate-limited, coming after at most 4 rate-limited ones,
\* is returned with its body; 5 rate-limited responses end the call with the
\* retries-exhausted error, and no sixth request is made.
C2_RetryCap ==
    /\ Requests <= 5
    /\ Cardinality({i \in 1..Len(hist) : hist[i].waitMs > 0}) <= 4
    /\ \A i \in 1..Len(hist) : hist[i].url = url
    /\ \A i \in 1..(Len(hist) - 1) : IsRateLimited(hist[i]) /\ hist[i].waitMs > 0
    /\ pc = "fetch" => \A i \in 1..Len(hist) : IsRateLimited(hist[i]) /\ hist[i].waitMs > 0
    /\ pc = "fetched" =>
          LET final == hist[Len(hist)]
          IN /\ (IsSuccess(final.status) /\ ~IsRateLimited(final)) =>
                    /\ fetchResult.kind = "return"
                    /\ fetchResult.payload = final.body
             /\ IsRateLimited(final) <=>
                    /\ fetchResult.kind = "throw"
                    /\ fetchResult.error = "Exceeded retry attempts"
             /\ IsRateLimited(final) => Len(hist) = 5

\* 429, 429, 429, 200: the call has returned the last body
C2_Witness ==
    /\ pc = "fetched"
    /\ Len(hist) = 4
    /\ \A i \in 1..3 : hist[i].status = 429
    /\ hist[4].status = 200
    /\ fetchResult.kind = "return"
    /\ fetchResult.payload = <<"Job", "page">>

\* C3 as stated: a response whose status is neither 429 nor 2xx, whatever its
\* body, ends the call at once with the HTTP error, without delay or retry.
C3_AnyBodyFailsAtOnce ==
    \A i \in 1..Len(hist) :
        (hist[i].status # 429 /\ ~IsSuccess(hist[i].status)) =>
            /\ i = Len(hist)
            /\ pc = "fetched"
            /\ hist[i].waitMs = 0
            /\ fetchResult.kind = "throw"
            /\ fetchResult.error = "Failed to fetch"
            /\ fetchResult.status = hist[i].status

\* C3 amended: a response whose status is neither 429 nor 2xx and whose body
\* holds no rate-limit marker ends the call at once with the HTTP error for
\* that status, without delay or retry.
C3_UnmarkedFailsAtOnce ==
    \A i \in 1..Len(hist) :
        (hist[i].status # 429 /\ ~IsSuccess(hist[i].status) /\ ~RateLimitMarker(hist[i].body)) =>
            /\ i = Len(hist)
            /\ pc = "fetched"
            /\ hist[i].waitMs = 0
            /\ fetchResult.kind = "throw"
            /\ fetchResult.error = "Failed to fetch"
            /\ fetchResult.status = hist[i].status

\* a 404 without marker, after two retries, has ended the call
C3_Witness ==
    /\ pc = "fetched"
    /\ Len(hist) = 3
    /\ hist[3].status = 404
    /\ ~RateLimitMarker(hist[3].body)
    /\ fetchResult.kind = "throw"
    /\ fetchResult.error = "Failed to fetch"

\* C21: the wait before the retry that follows attempt n (n = 1..4) is
\* 3000*n ms when the response had status 429 and 4000*n ms when a marker was
\* found in the body of a response of another status; the responses of a call
\* are met at attempts 1, 2, 3, ...; the attempt number of the pending request
\* is one more than the number of responses met; a new top-level call starts
\* at attempt 1 whatever the call before it did, and the attempt number
\* otherwise only moves by one.
C21_RetryWaits ==
    /\ [](\A n \in 1..Len(hist) :
              /\ hist[n].attempt = n
              /\ hist[n].waitMs > 0 =>
                     /\ n <= 4
                     /\ hist[n].status = 429 => hist[n].waitMs = 3000 * n
                     /\ hist[n].status # 429 =>
                            (RateLimitMarker(hist[n].body) /\ hist[n].waitMs = 4000 * n))
    /\ [](\A n \in 1..Len(hist) : hist[n].waitMs \in {0} \cup {3000 * n, 4000 * n})
    /\ []((pc = "fetch") => attempt = Len(hist) + 1)
    /\ [][(pc = "fetched" /\ pc' = "fetch") => (attempt' = 1 /\ hist' = <<>>)]_vars
    /\ [][(pc = "fetch") => (attempt' = attempt \/ attempt' = attempt + 1)]_vars
    /\ [][(pc = "fetch" /\ attempt' = attempt + 1) =>
              /\ url' = url
              /\ Len(hist') = attempt
              /\ hist'[attempt].waitMs > 0]_vars

\* four retries of one call: after a 429, a marker in a 200, a marker in a
\* 404 and a 429 again; the fifth request is pending
C21_Witness ==
    /\ pc = "fetch"
    /\ attempt = 5
    /\ Len(hist) = 4
    /\ hist[1].status = 429 /\ hist[1].waitMs = 3000
    /\ hist[2].status = 200 /\ hist[2].waitMs = 8000
    /\ hist[3].status = 404 /\ hist[3].waitMs = 12000
    /\ hist[4].status = 429 /\ hist[4].waitMs = 12000

\* the body holds "HTTP ERROR 429" or "Too Many Requests" in any case
HasMarker(body) ==
    \E i \in 1..(Len(body) - 2) :
        ToLower(SubSeq(body, i, i + 2)) \in {<<"http", "error", "429">>, <<"too", "many", "requests">>}

\* C24: fetchText never returns a body that holds a rate-limit marker; a
\* response whose body holds one is rate-limited whatever its status: the call
\* waits and retries after it, or, at the fifth response, fails with the
\* retries-exhausted error; so a call that only meets bodies with a marker
\* ends after 5 responses with that error.
C24_MarkerNeverReturned ==
    /\ fetchResult.kind = "return" => ~HasMarker(fetchResult.payload)
    /\ \A i \in 1..Len(hist) :
           HasMarker(hist[i].body) =>
               \/ hist[i].waitMs > 0 /\ i <= 4
               \/ /\ i = 5
                  /\ pc = "fetched"
                  /\ fetchResult.kind = "throw"
                  /\ fetchResult.error = "Exceeded retry attempts"
    /\ (pc = "fetched" /\ \A i \in 1..Len(hist) : HasMarker(hist[i].body)) =>
           /\ Len(hist) = 5
           /\ fetchResult.kind = "throw"
           /\ fetchResult.error = "Exceeded retry attempts"

\* five responses of status 200 whose content holds the marker: the call
\* has failed
C24_Witness ==
    /\ pc = "fetched"
    /\ Len(hist) = 5
    /\ \A i \in 1..5 :
           /\ hist[i].status = 200
           /\ hist[i].body = <<"Job", "page", "Too", "Many", "Requests">>
    /\ fetchResult.kind = "throw"
    /\ fetchResult.error = "Exceeded retry attempts"

-----------------------------------------------------------------------------
(* Properties of detectVisa (checked under SpecVisa)                       *)

\* the detail-page body: what follows the sentinel, lower-cased
VisaBody == ToLower(SplitPop(arg, SENTINEL))

\* C9: the status follows the fixed priority positive, negative, neutral,
\* whatever the places of the phrases in the body; evidence is given exactly
\* when a phrase of one of the three groups occurs.
C9_GroupPriority ==
    pc = "visaDone" =>
        /\ ret.status = IF IncludesAny(VisaBody, POSITIVE) THEN "Yes"
                        ELSE IF IncludesAny(VisaBody, NEGATIVE) THEN "No"
                        ELSE "Not mentioned"
        /\ ret.evidence # None <=> IncludesAny(VisaBody, POSITIVE \cup NEGATIVE \cup PERMIT)

\* a body whose negative phrase comes before its positive phrase is classified "Yes"
C9_Witness ==
    /\ pc = "visaDone"
    /\ VisaBody = <<"without", "sponsorship", "visa", "support">>
    /\ ret.status = "Yes"

\* the negative phrases the specification names
NamedNegatives ==
    { <<"no", "visa", "sponsorship">>, <<"without", "sponsorship">>, <<"must", "have", "work", "permit">> }

\* the body is one of the named negative phrases between words that make no
\* sponsorship statement of their own
OnlyNegativeStatement(body) ==
    \E p \in NamedNegatives : \E i \in 1..(Len(body) - Len(p) + 1) :
        /\ SubSeq(body, i, i + Len(p) - 1) = p
        /\ ~IncludesAny(SubSeq(body, 1, i - 1), POSITIVE \cup NEGATIVE \cup PERMIT)
        /\ ~IncludesAny(SubSeq(body, i + Len(p), Len(body)), POSITIVE \cup NEGATIVE \cup PERMIT)

\* C10: a body whose only sponsorship statement is one of the negative phrases
\* "no visa sponsorship", "without sponsorship", "must have work permit" is
\* classified Sponsorship-Denied ("No").
C10_NegativeDenied ==
    (pc = "visaDone" /\ OnlyNegativeStatement(VisaBody)) => ret.status = "No"

-----------------------------------------------------------------------------
(* Properties of a run (checked under Spec)                                *)

\* the part of a listing URL before its first "?"
UpToQuery(u) ==
    SubSeq(u, 1, CHOOSE n \in 0..Len(u) :
                     /\ \A j \in 1..n : u[j] # "?"
                     /\ n = Len(u) \/ u[n + 1] = "?")

Ids(jobs) == {jobs[i].id : i \in 1..Len(jobs)}

\* the number of records whose country contains c, case-insensitively
CountIn(jobs, c) ==
    LET Contains(job) == Includes(ToLower(job.country), ToLower(c))
    IN Len(SelectSeq(jobs, Contains))

InSearch == pc \in {"fetchPage", "listings", "fetchDetail"}

\* C1: the records of the result map have pairwise distinct ids; each id is
\* the record's applyUrl and is the listing URL cut before its first "?"; a
\* record is only ever added at the end of the map, under a key the map does
\* not hold; a listing whose canonical URL is a key of the map is skipped, so
\* a listing met twice (same page, other page, other search) gives one record.
C1_Dedup ==
    /\ [](\A i, j \in 1..Len(JOBS) : i # j => JOBS[i].id # JOBS[j].id)
    /\ [](\A i \in 1..Len(JOBS) :
              /\ JOBS[i].id = JOBS[i].applyUrl
              /\ \A k \in 1..Len(JOBS[i].id) : JOBS[i].id[k] # "?")
    /\ [][JOBS' # JOBS =>
              /\ pc = "fetchDetail"
              /\ Len(JOBS') = Len(JOBS) + 1
              /\ SubSeq(JOBS', 1, Len(JOBS)) = JOBS
              /\ JOBS'[Len(JOBS')].id = UpToQuery(raw.jobUrl)
              /\ UpToQuery(raw.jobUrl) \notin Ids(JOBS)]_vars
    /\ [][(pc = "listings" /\ parsed # <<>> /\ UpToQuery(Head(parsed).jobUrl) \in Ids(JOBS)) =>
              /\ JOBS' = JOBS
              /\ pc' = "listings"
              /\ parsed' = Tail(parsed)]_vars

\* a listing of the second search was skipped as a duplicate of the one
\* record, whose URL it carries with a query string
C1_Witness ==
    /\ pc = "listings"
    /\ si = 2
    /\ last.ev = "duplicate"
    /\ Len(JOBS) = 1
    /\ JOBS[1].id = <<ViewPath, "1">>

\* C4: while processSearch(s) is at work the count for s.country is below
\* s.maxJobs; an insertion that brings the count to s.maxJobs ends the search
\* in the same step (the rest of the page is dropped, no request is pending,
\* main is at the next search), and the search index never goes back; so the
\* search that ends on its cap leaves exactly maxJobs records for its country.
C4_CapEndsSearch ==
    /\ [](InSearch => CountIn(JOBS, SEARCHES[si].country) < SEARCHES[si].maxJobs)
    /\ [][(Len(JOBS') > Len(JOBS)
           /\ CountIn(JOBS', SEARCHES[si].country) >= SEARCHES[si].maxJobs) =>
              /\ pc' = "main"
              /\ si' = si + 1
              /\ parsed' = <<>>
              /\ url' = NoUrl
              /\ last'.ev = "country cap"
              /\ last'.left = Len(parsed)]_vars
    /\ [][si' >= si]_vars
    /\ [](pc = "main" /\ last.ev = "country cap" =>
              CountIn(JOBS, SEARCHES[si - 1].country) = SEARCHES[si - 1].maxJobs)

\* cap 2, a page of three listings: the first search has ended on its cap
\* with two records and one listing never examined
C4_Witness ==
    /\ pc = "main"
    /\ si = 2
    /\ SEARCHES[1].maxJobs = 2
    /\ last.ev = "country cap"
    /\ last.left = 1
    /\ Len(JOBS) = 2
    /\ CountIn(JOBS, SEARCHES[1].country) = 2

CapsFor(c) == {SEARCHES[k].maxJobs : k \in {j \in 1..Len(SEARCHES) : SEARCHES[j].country = c}}

LargestCap(c) == CHOOSE m \in CapsFor(c) : \A n \in CapsFor(c) : n <= m

\* processSearch has just returned to main (the search was not skipped)
Returned ==
    /\ pc = "main"
    /\ si > 1
    /\ last.ev \in {"page fetch failed", "no sentinel", "no listings", "country cap", "pages done"}

PageExits == {"page fetch failed", "no sentinel", "no listings"}

\* C7: a listing-page request ends in a page of at least one listing or in
\* the end of the search; a failed fetch, a text without the
\* sentinel and a page without listings end the search: no request is
\* pending, the result map and the output are as before, main is at the next
\* search, which it still processes or skips on its cap.
C7_PageFailureEndsSearch ==
    /\ [][(pc = "fetchPage" /\ pc' = "listings") => (parsed' # <<>> /\ last'.ev = "page parsed")]_vars
    /\ [][(pc = "fetchPage" /\ pc' # "listings") =>
              /\ pc' = "main"
              /\ last'.ev \in PageExits
              /\ si' = si + 1
              /\ url' = NoUrl
              /\ JOBS' = JOBS
              /\ output' = output]_vars
    /\ [][(last'.ev \in PageExits /\ last.ev \notin PageExits) =>
              /\ pc = "fetchPage"
              /\ pc' = "main"
              /\ si' = si + 1
              /\ url' = NoUrl
              /\ JOBS' = JOBS]_vars
    /\ []((pc = "main" /\ si <= Len(SEARCHES)) => ENABLED (MainSkip \/ MainProcess))

\* a page fetch of the first search failed after a record was taken, and the
\* second search is about to be processed
C7_Witness ==
    /\ pc = "main"
    /\ si = 2
    /\ Len(SEARCHES) = 2
    /\ last.ev = "page fetch failed"
    /\ Len(JOBS) = 1
    /\ ENABLED MainProcess

\* C8: a visa-detail request ends in the insertion of the record of its
\* listing, after which the page goes on unless the country cap
\* is reached; when the fetch has failed the record has status "Not
\* mentioned", no evidence, and the match reasons of the title with empty
\* detail text.
C8_VisaFailureKeepsListing ==
    /\ [][pc = "fetchDetail" =>
              /\ Len(JOBS') = Len(JOBS) + 1
              /\ JOBS'[Len(JOBS')].id = UpToQuery(raw.jobUrl)
              /\ JOBS'[Len(JOBS')].title = raw.title
              /\ pc' \in {"listings", "main"}
              /\ pc' = "main" => CountIn(JOBS', SEARCHES[si].country) >= SEARCHES[si].maxJobs
              /\ pc' = "listings" => (parsed' = parsed /\ si' = si /\ start' = start)
              /\ last'.visa \in {"failed", "checked"}]_vars
    /\ [][(pc = "fetchDetail" /\ last'.visa = "failed") =>
              /\ JOBS'[Len(JOBS')].visa = [status |-> "Not mentioned", evidence |-> None]
              /\ JOBS'[Len(JOBS')].matchReasons = buildMatchReasons(raw, <<>>)]_vars

\* the detail fetch of a listing failed, its record is in the map with the
\* fallback status, and the page goes on with the next listing
C8_Witness ==
    /\ pc = "listings"
    /\ parsed # <<>>
    /\ last.visa = "failed"
    /\ JOBS # <<>>
    /\ JOBS[Len(JOBS)].visa.status = "Not mentioned"
    /\ JOBS[Len(JOBS)].visa.evidence = None

-----------------------------------------------------------------------------
(* Properties of a run that fills the result map (checked under SpecCap)   *)

\* C6: the result map never holds more than 200 records; when a listing has
\* passed the six skip filters and the map holds 200 records, nothing is
\* inserted and the page is left at that listing, the rest of it unexamined.
C6_GlobalCap ==
    /\ [](Len(JOBS) <= 200)
    /\ [][(pc = "listings" /\ parsed # <<>> /\ Len(JOBS) >= 200
           /\ SkipReason(Head(parsed), SEARCHES[si], JOBS) = "none") =>
              /\ JOBS' = JOBS
              /\ pc' \in {"fetchPage", "main"}
              /\ parsed' = <<>>
              /\ last'.left = Len(parsed)
              /\ raw' = NoRaw]_vars

\* the map holds 200 records and a page was left with listings unexamined
C6_Witness ==
    /\ Len(JOBS) = 200
    /\ pc = "fetchPage"
    /\ last.ev = "next page"
    /\ last.left > 1

-----------------------------------------------------------------------------
(* Properties of the skip filters (checked under SpecFilter)               *)

\* the record passes the filters of the search and carries its label
Accepts(search, rec) ==
    /\ ~Includes(ToLower(rec.title), <<"remote">>)
    /\ ~isRemote(rec.meta, rec.location)
    /\ isRelevantTitle(rec.title)
    /\ ~Includes(ToLower(rec.company), <<"twine">>)
    /\ Includes(ToLower(rec.country), ToLower(search.country))
    /\ rec.searchLabel = search.label

\* C11: every record of the result map passes the skip filters of the search
\* that accepted it (title without "remote", isRemote false, isRelevantTitle
\* true, company without the blocklisted word, country containing the
\* search's country) and carries that search's label: this holds of the
\* record at the step that inserts it, for the search then processed, and of
\* every record of the map for one of the configured searches.
C11_RecordsPassFilters ==
    /\ [](\A i \in 1..Len(JOBS) : \E k \in 1..Len(SEARCHES) : Accepts(SEARCHES[k], JOBS[i]))
    /\ [][Len(JOBS') > Len(JOBS) => Accepts(SEARCHES[si], JOBS'[Len(JOBS')])]_vars

\* a record is in the map and a later listing of the page was skipped for
\* its company
C11_Witness ==
    /\ pc = "listings"
    /\ last.ev = "company"
    /\ Len(JOBS) = 1
    /\ Accepts(SEARCHES[si], JOBS[1])

-----------------------------------------------------------------------------
(* Properties of isRelevantTitle (checked under SpecTitle)                 *)

\* the lower-cased title holds one of the keywords
HasKeyword(title, keywords) ==
    \E kw \in keywords : \E i \in 1..Len(title) :
        /\ i + Len(kw) - 1 <= Len(title)
        /\ \A k \in 1..Len(kw) : LowerTok(title[i + k - 1]) = kw[k]

\* C12: isRelevantTitle(title) is false whenever the lower-cased title holds
\* an exclusion keyword, with or without inclusion keywords; it is true
\* exactly when the title holds an inclusion keyword and no exclusion keyword.
C12_ExclusionDominates ==
    pc = "titleDone" =>
        /\ HasKeyword(arg, EXCLUDED) => ret = FALSE
        /\ ret = TRUE <=> (HasKeyword(arg, REQUIRED) /\ ~HasKeyword(arg, EXCLUDED))

\* a title with an inclusion keyword and a two-word exclusion keyword is
\* not relevant
C12_Witness ==
    /\ pc = "titleDone"
    /\ arg = <<"Medical", "writer", "Marketing">>
    /\ ret = FALSE

-----------------------------------------------------------------------------
(* Properties of buildMatchReasons (checked under SpecReasons)             *)

\* the rules of the table whose keywords occur in the lower-cased title and
\* detail text
FiringRules ==
    {k \in 1..Len(skillRules) :
        HasKeyword(arg.rawJob.title \o arg.detailText, skillRules[k].keywords)}

\* C13: buildMatchReasons returns a non-empty sequence without duplicates:
\* first "Matches <search label>", then the reasons of exactly the rules that
\* fire, in the order of the rule table; this for every detail text, the
\* empty one included.
C13_ReasonsNeverEmpty ==
    pc = "reasonsDone" =>
        /\ ret # <<>>
        /\ \A i, j \in 1..Len(ret) : ret[i] = ret[j] => i = j
        /\ ret[1] = "Matches " \o arg.rawJob.search.label
        /\ Len(ret) = 1 + Cardinality(FiringRules)
        /\ \A k \in FiringRules :
               ret[1 + Cardinality({m \in FiringRules : m <= k})] = skillRules[k].reason

\* a detail text that fires the third and the eighth rule gives the label
\* and their two reasons, in that order
C13_Witness ==
    /\ pc = "reasonsDone"
    /\ arg.rawJob.title = <<"Brand", "Manager">>
    /\ arg.detailText = <<"Video", "editing">>
    /\ ret = << "Matches " \o arg.rawJob.search.label,
                "Video production/editing skills explicitly requested",
                "Hands-on video editing deliverables" >>

-----------------------------------------------------------------------------
(* Properties of the output and of the order of a run (checked under Spec) *)

\* a comes before b, or may come before it, in the order of the output:
\* by country, and by title among equal countries
InOrder(a, b) ==
    \/ localeCompare(a.country, b.country) < 0
    \/ localeCompare(a.country, b.country) = 0 /\ localeCompare(a.title, b.title) <= 0

\* C14: the jobs sequence written is a permutation of the records of the
\* result map as the last search left it, ascending by country and, among
\* equal countries, by title; the total written is the length of that
\* sequence.
C14_OutputSorted ==
    pc = "done" =>
        /\ Len(output) = 1
        /\ output[1].total = Len(output[1].jobs)
        /\ Len(output[1].jobs) = Len(JOBS)
        /\ {output[1].jobs[i] : i \in 1..Len(JOBS)} = {JOBS[i] : i \in 1..Len(JOBS)}
        /\ \A i, j \in 1..Len(output[1].jobs) :
               i < j => InOrder(output[1].jobs[i], output[1].jobs[j])

\* a record of Ireland inserted first and two records of Belgium inserted
\* against the order of their titles are written in the reverse order
C14_Witness ==
    /\ pc = "done"
    /\ Len(JOBS) = 3
    /\ JOBS[1].country = <<"Ireland">>
    /\ JOBS[2].title = <<"Digital", "Marketing", "Manager">>
    /\ JOBS[3].title = <<"Content", "Creator">>
    /\ output[1].jobs = <<JOBS[3], JOBS[2], JOBS[1]>>

\* C15: searches are taken in the order of the list, one at a time: the
\* search index moves by one and never back; the one request that may be
\* outstanding is the page request of the current search at the current
\* offset, or the detail request of the listing taken from the current page,
\* and none is outstanding otherwise; a record is only inserted when the
\* detail request of its listing ends, for the current search; the listings
\* of a page are examined from the first on, and none is examined while a
\* detail request is outstanding.
C15_SequentialOrder ==
    /\ [][si' = si \/ (si' = si + 1 /\ pc' = "main" /\ url' = NoUrl)]_vars
    /\ [](pc = "fetchPage" => (si <= Len(SEARCHES) /\ url = SearchUrl(SEARCHES[si], start)))
    /\ [](pc = "fetchDetail" =>
             /\ si <= Len(SEARCHES)
             /\ raw.search = SEARCHES[si]
             /\ url = ProxyUrl(raw.jobUrl))
    /\ [](pc \notin {"fetchPage", "fetchDetail"} => url = NoUrl)
    /\ [](pc = "main" => parsed = <<>>)
    /\ [][JOBS' # JOBS =>
              /\ pc = "fetchDetail"
              /\ si' \in {si, si + 1}
              /\ JOBS'[Len(JOBS')].searchLabel = SEARCHES[si].label
              /\ JOBS'[Len(JOBS')].title = raw.title]_vars
    /\ [][(pc = "listings" /\ pc' = "fetchDetail") =>
              (raw' = Head(parsed) /\ parsed' = Tail(parsed) /\ si' = si)]_vars
    /\ [][(pc = "listings" /\ pc' = "listings") => (parsed' = Tail(parsed) /\ JOBS' = JOBS)]_vars
    /\ [][pc = "fetchDetail" => (parsed' = parsed \/ pc' = "main")]_vars

\* the detail request of a listing of the second search is outstanding, a
\* further listing of the page waits, and the map holds a record of the first
\* search
C15_Witness ==
    /\ pc = "fetchDetail"
    /\ si = 2
    /\ parsed # <<>>
    /\ JOBS # <<>>
    /\ JOBS[1].searchLabel = SEARCHES[1].label
    /\ SEARCHES[1].label # SEARCHES[2].label
    /\ url = ProxyUrl(raw.jobUrl)

\* the offsets a search may request
Offsets == {k * PAGE_STEP : k \in 0..(MAX_START \div PAGE_STEP)}

\* C16: a search requests its listing pages at the offsets 0, 25, 50 in
\* increasing order: the offset is one of the three, the page request that is
\* outstanding is the one for the current offset, the first page request of a
\* search is at offset 0, every further one is at the next offset of the
\* same search, and between two page requests of a search the offset does not
\* change otherwise; so no offset is requested twice and none above 50.
C16_PageOffsets ==
    /\ [](start \in Offsets /\ Cardinality(Offsets) = 3)
    /\ [](pc = "fetchPage" =>
             /\ url = SearchUrl(SEARCHES[si], start)
             /\ \A o \in Offsets \ {start} : url # SearchUrl(SEARCHES[si], o))
    /\ [][pc = "fetchPage" => pc' # "fetchPage"]_vars
    /\ [][(pc' = "fetchPage" /\ pc # "fetchPage") =>
              \/ (pc = "main" /\ start' = 0)
              \/ (pc \in {"listings", "fetchDetail"} /\ si' = si /\ start' = start + PAGE_STEP)]_vars
    /\ [][(pc' # "fetchPage" /\ pc' # "main") => (start' = start /\ si' = si)]_vars

\* the third page of a search is requested, after a record was inserted from
\* an earlier page
C16_Witness ==
    /\ pc = "fetchPage"
    /\ start = MAX_START
    /\ url = SearchUrl(SEARCHES[si], MAX_START)
    /\ last.ev = "next page"
    /\ JOBS # <<>>

\* the turn of a search comes while its country holds maxJobs records or more
TurnAtCap ==
    /\ pc = "main"
    /\ si <= Len(SEARCHES)
    /\ CountIn(JOBS, SEARCHES[si].country) >= SEARCHES[si].maxJobs

\* the labels of the records of the map
Labels(jobs) == {jobs[i].searchLabel : i \in 1..Len(jobs)}

\* C17: when the turn of a search comes and the number of records whose
\* country contains its country is at least its maxJobs, the only step is to
\* the next search: no request is issued and the map is left as it is; right
\* after the skip the map holds no record labelled by the skipped search, and
\* records are only ever labelled by searches whose turn has come, so none is
\* added for it later.
C17_CappedSearchSkipped ==
    /\ [][TurnAtCap =>
              /\ si' = si + 1
              /\ pc' = "main"
              /\ url' = NoUrl
              /\ JOBS' = JOBS
              /\ last'.ev = "search skipped"]_vars
    /\ []((last.ev = "search skipped") =>
              /\ pc = "main"
              /\ url = NoUrl
              /\ SEARCHES[si - 1].label \notin Labels(JOBS))
    /\ [](\A k \in 1..Len(SEARCHES) : SEARCHES[k].label \in Labels(JOBS) => k <= si)
    /\ [][\A k \in 1..Len(SEARCHES) :
              (SEARCHES[k].label \in Labels(JOBS') \ Labels(JOBS)) => k = si]_vars

\* the second search was skipped: the first one filled the country to the
\* second one's maxJobs
C17_Witness ==
    /\ last.ev = "search skipped"
    /\ si = 3
    /\ JOBS # <<>>
    /\ SEARCHES[1].country = SEARCHES[2].country
    /\ CountIn(JOBS, SEARCHES[2].country) >= SEARCHES[2].maxJobs
    /\ Labels(JOBS) = {SEARCHES[1].label}

\* C19: the output file is written at most once in a run, and only when the
\* loop over the searches is over (every search was processed or skipped): the
\* write is the step main takes after the last search, it ends the run, and
\* before it nothing has been written, so a run cut short at any earlier point
\* leaves the file as it was.
C19_WrittenOnceAtEnd ==
    /\ [](Len(output) <= 1)
    /\ []((pc # "done") => output = <<>>)
    /\ []((output # <<>>) => (si = Len(SEARCHES) + 1 /\ url = NoUrl /\ parsed = <<>>))
    /\ [][(output' # output) =>
              /\ output = <<>>
              /\ Len(output') = 1
              /\ pc = "main"
              /\ si > Len(SEARCHES)
              /\ pc' = "done"
              /\ JOBS' = JOBS]_vars
    /\ [][pc # "done"]_vars

\* two searches were run, each of them inserted a record, and the file was
\* written
C19_Witness ==
    /\ pc = "done"
    /\ Len(output) = 1
    /\ Len(SEARCHES) = 2
    /\ si = 3
    /\ Labels(JOBS) = {SEARCHES[1].label, SEARCHES[2].label}

\* JOBS.get(key), for a key of the map
RecordAt(jobs, key) == jobs[CHOOSE i \in 1..Len(jobs) : jobs[i].id = key]

\* C20: a record, once inserted under a key, stays in the map as it is: at
\* every step each key of the map is still a key and holds the same record
\* (searchLabel and visa fields included), the map never shrinks, the listing
\* whose detail page is being fetched has a key the map does not hold, and a
\* listing skipped as a duplicate leaves the map as it is, whichever search
\* it comes from.
C20_RecordsNeverReplaced ==
    /\ [][\A key \in Ids(JOBS) :
              /\ key \in Ids(JOBS')
              /\ RecordAt(JOBS', key) = RecordAt(JOBS, key)]_vars
    /\ [][Len(JOBS') >= Len(JOBS)]_vars
    /\ []((pc = "fetchDetail") => ~JobsHas(JOBS, UpToQuery(raw.jobUrl)))
    /\ []((last.ev = "duplicate") =>
              \E key \in Ids(JOBS) :
                  \E k \in 1..si : RecordAt(JOBS, key).searchLabel = SEARCHES[k].label)
    /\ [][(last'.ev = "duplicate" /\ pc = "listings") =>
              /\ JOBS' = JOBS
              /\ UpToQuery(Head(parsed).jobUrl) \in Ids(JOBS)]_vars

\* a listing of the second search, for another country, was skipped as a
\* duplicate while the map holds two records of the first search
C20_Witness ==
    /\ last.ev = "duplicate"
    /\ si = 2
    /\ Len(JOBS) = 2
    /\ Labels(JOBS) = {SEARCHES[1].label}
    /\ SEARCHES[2].country # SEARCHES[1].country

\* the listing passes the six skip tests of the search against the map
Survives(rawJob, search, jobs) ==
    /\ ~Includes(ToLower(rawJob.title), <<"remote">>)
    /\ ~isRemote(rawJob.metaTags, rawJob.locationLine)
    /\ isRelevantTitle(rawJob.title)
    /\ ~Includes(ToLower(rawJob.company), <<"twine">>)
    /\ UpToQuery(rawJob.jobUrl) \notin Ids(jobs)
    /\ Includes(ToLower(rawJob.countryGuess), ToLower(search.country))

\* C22: a detail page is requested only for the listing at the head of the
\* page, when it passes the six skip tests and the map holds fewer than 200
\* records; the step that ends that request inserts exactly one record, the
\* one of that listing, whether the fetch returned or threw; the map changes
\* at no other step; a listing that fails a test is passed over with no
\* request and no insertion; and the insertion that reaches the country cap
\* drops the rest of the page with no request pending. So the detail
\* requests of a run and the records of the map correspond one to one.
C22_OneFetchPerRecord ==
    /\ [][(pc' = "fetchDetail" /\ pc # "fetchDetail") =>
              /\ pc = "listings"
              /\ parsed # <<>>
              /\ raw' = Head(parsed)
              /\ Survives(Head(parsed), SEARCHES[si], JOBS)
              /\ Len(JOBS) < 200
              /\ url' = ProxyUrl(Head(parsed).jobUrl)
              /\ JOBS' = JOBS]_vars
    /\ []((pc = "fetchDetail") =>
              (Survives(raw, SEARCHES[si], JOBS) /\ url = ProxyUrl(raw.jobUrl)))
    /\ [][(pc = "fetchDetail") =>
              /\ pc' # "fetchDetail"
              /\ url' = NoUrl
              /\ Len(JOBS') = Len(JOBS) + 1
              /\ SubSeq(JOBS', 1, Len(JOBS)) = JOBS
              /\ JOBS'[Len(JOBS')].id = UpToQuery(raw.jobUrl)
              /\ JOBS'[Len(JOBS')].title = raw.title]_vars
    /\ [][(JOBS' # JOBS) => pc = "fetchDetail"]_vars
    /\ [][(pc = "listings" /\ parsed # <<>> /\ ~Survives(Head(parsed), SEARCHES[si], JOBS)) =>
              /\ pc' = "listings"
              /\ url' = NoUrl
              /\ JOBS' = JOBS
              /\ parsed' = Tail(parsed)]_vars
    /\ [][(last'.ev = "country cap" /\ last' # last) =>
              /\ pc = "fetchDetail"
              /\ pc' = "main"
              /\ parsed' = <<>>
              /\ url' = NoUrl]_vars

\* a record was inserted after its detail fetch failed, and the page has
\* further listings
C22_Witness ==
    /\ pc = "listings"
    /\ last.ev = "inserted"
    /\ last.visa = "failed"
    /\ Len(JOBS) = 1
    /\ parsed # <<>>
    /\ ~Survives(Head(parsed), SEARCHES[si], JOBS)

\* C23: when every request is answered and every delay elapses, the run
\* reaches the final write, whatever the responses: a call of fetchText is at
\* attempt 5 at most, the offset of a search is 50 at most, the search index
\* is at most one past the list, and in the end the run is done with its one
\* output document written.
C23_RunTerminates ==
    /\ [](attempt \in 1..5)
    /\ [](start \in {0, 25, 50})
    /\ [](si \in 1..(Len(SEARCHES) + 1))
    /\ [][attempt' > attempt => (attempt' = attempt + 1 /\ url' = url /\ pc' = pc)]_vars
    /\ <>[](pc = "done" /\ Len(output) = 1 /\ si = Len(SEARCHES) + 1)

\* the last page of the last search is at its fifth request, after four
\* rate-limited responses
C23_Witness ==
    /\ pc = "fetchPage"
    /\ attempt = 5
    /\ start = 50
    /\ Len(SEARCHES) = 2
    /\ si = 2
    /\ JOBS # <<>>

-----------------------------------------------------------------------------
(* Properties of parseMarkdown (checked under SpecParse)                   *)

HasSentinel(text) == \E i \in 1..Len(text) : text[i] = SENTINEL

\* C18: for every document that does not contain the sentinel, parseMarkdown
\* returns the empty sequence, whatever else the document contains.
C18_NoSentinelEmpty ==
    (pc = "parseDone" /\ ~HasSentinel(arg.markdown)) => ret = <<>>

====
